---- MODULE Spec2Model ----
(***************************************************************************)
(* A model of src/WeatherApi.py: the WeatherApi client, its per-city cache *)
(* (self.cities) with the ten-minute freshness rule, the polling refresh   *)
(* (update_cities_cache) and the process-wide registry of clients          *)
(* (WeatherApi.weather_api_cache).                                         *)
(*                                                                         *)
(* Strings are sequences of one-character strings, so that str.strip() is  *)
(* computed.  A dict is a tuple: {} is << >>, {"lon": x, "lat": y} is      *)
(* <<x, y>>, and a weather payload is <<lat, lon, t>>: the upstream's      *)
(* answer for a place at the minute t of the request.  The clock counts    *)
(* whole minutes.                                                          *)
(***************************************************************************)
EXTENDS Integers, Sequences, FiniteSets, TLC

\* ------------------------------------------------------------------ bounds
\* The clock stops advancing at MaxTime minutes.
MaxTime == 11
\* Minutes that may pass between two clock readings of one call.
MaxElapse == 1
\* Entries of the warm cache the client may start from (see Init).
Prefill == 9
\* Requests of one update_cities_cache that succeed before one that fails.
MaxOk == 1
\* Clients (objects) that may ever be constructed, and distinct API keys.
MaxClients == 3
MaxKeys == 2

\* ------------------------------------------------------- program constants
\* `time_diff < 10` of get_and_cache_weather_city.
FreshLimit == 10
\* `time_diff > 10` of update_cities_cache.
StaleLimit == 10
\* `len(self.cities) > 9`.
CapacityCheck == 9
\* `self.cities.remove(0)`: the value handed to list.remove.
EvictArg == 0
\* `response.status_code != 200`.
HttpOk == 200
\* A status the upstream may answer with instead.
HttpError == HttpOk + 300

VARIABLES
    behavior,           \* self.behavior of the client under study
    cities,             \* self.cities: a list of City records
    now,                \* the wall clock, in minutes
    fetched,            \* history: per name, when get_and_cache_weather_city
                        \* last appended an entry for it (-1: never, or removed)
    last,               \* history: the last call on the client, see Call
    weather_api_cache,  \* WeatherApi.weather_api_cache: a list of client ids
    api_key,            \* per client id, its _api_key (NoKey: not constructed)
    lastReg             \* history: the last registry operation

vars == <<behavior, cities, now, fetched, last, weather_api_cache, api_key, lastReg>>
cacheVars == <<behavior, cities, now, fetched, last>>
regVars == <<weather_api_cache, api_key, lastReg>>

\* ------------------------------------------------------------------- names
Space == " "
FillerChars == <<"a", "b", "c", "d", "e", "f", "g", "h", "i", "j", "k">>
Paris == <<"P">>
Tokyo == <<"T">>
FillerName(i) == <<"F", FillerChars[i]>>
\* The names the calls are made with: two cities and the blank names.
BlankNames == {<< >>, <<Space, Space>>}
CityNames == {Paris, Tokyo}
FillerNames == {FillerName(i) : i \in 1..Prefill}
CallNames == CityNames \cup BlankNames
AllNames == CallNames \cup FillerNames

RECURSIVE LStrip(_)
LStrip(s) == IF s # << >> /\ Head(s) = Space THEN LStrip(Tail(s)) ELSE s

RECURSIVE RStrip(_)
RStrip(s) ==
    IF s # << >> /\ s[Len(s)] = Space THEN RStrip(SubSeq(s, 1, Len(s) - 1)) ELSE s

\* str.strip()
Strip(s) == RStrip(LStrip(s))

\* Mutant: only the empty string is refused.
is_valid_parameter_NonEmpty(param) == param # << >>

\* WeatherApiValidator.is_valid_parameter: TRUE, or FALSE where it raises
\* ValueError.
is_valid_parameter(param) == ~(param = << >> \/ Strip(param) = << >>)

\* WeatherApiValidator.is_valid_status_code_response: FALSE where it raises.
is_valid_status_code_response(response) == response.status_code = HttpOk

\* ---------------------------------------------------------------- upstream
\* The geocoder's database: the coordinates it answers for a name.
FillerIndex(name) == CHOOSE i \in 1..Len(FillerChars) : FillerChars[i] = name[2]
GeoLon(name) ==
    IF name = Paris THEN 2
    ELSE IF name = Tokyo THEN 139
    ELSE IF Len(name) = 2 /\ name[1] = "F" THEN 200 + FillerIndex(name)
    ELSE 0
GeoLat(name) ==
    IF name = Paris THEN 48
    ELSE IF name = Tokyo THEN 35
    ELSE IF Len(name) = 2 /\ name[1] = "F" THEN 300 + FillerIndex(name)
    ELSE 0

\* The weather payload the upstream answers at minute t.
Payload(lat, lon, t) == <<lat, lon, t>>

\* What requests.get may give: a response, or a RequestException (transport).
FailResponses ==
    { [transport |-> FALSE, status_code |-> HttpError, json |-> << >>],
      [transport |-> TRUE, status_code |-> 0, json |-> << >>] }
GeoResponses(name) ==
    { [transport |-> FALSE, status_code |-> HttpOk,
       json |-> <<[lon |-> GeoLon(name), lat |-> GeoLat(name)]>>],
      [transport |-> FALSE, status_code |-> HttpOk, json |-> << >>] }
    \cup FailResponses
OkWeather(lat, lon, t) ==
    [transport |-> FALSE, status_code |-> HttpOk, json |-> Payload(lat, lon, t)]

\* The requests a call issues, in order.
GeoReq(name) == <<"geo", name>>
WeatherReq(lat, lon) == <<"weather", lat, lon>>

\* --------------------------------------------------------------- the cache
\* Mutant: latitude and longitude swapped.
City_Swapped(city_name, lat, lon, weather_data, created_datetime) ==
    [city_name |-> city_name, lat |-> lon, lon |-> lat,
     weather_data |-> weather_data, created_datetime |-> created_datetime]

City(city_name, lat, lon, weather_data, created_datetime) ==
    [city_name |-> city_name, lat |-> lat, lon |-> lon,
     weather_data |-> weather_data, created_datetime |-> created_datetime]

\* What a call raises: the exception and its message.
NoError == "none"
InvalidParameter == "ValueError: Invalid parameter"
InvalidResponse == "ValueError: Invalid API response"
FailedCoordinates == "RuntimeError: Failed to get coordinates"
FailedWeather == "RuntimeError: Failed to get weather data"
NotInList == "ValueError: list.remove(x): x not in list"
KeyExists == "RuntimeError: Api key already exists"

\* Mutant: only the first entry with the name goes (list.remove's way).
remove_first_by_name(cs, city_name) ==
    LET hits == {i \in 1..Len(cs) : cs[i].city_name = city_name}
    IN  IF hits = {} THEN cs
        ELSE LET i == CHOOSE j \in hits : \A k \in hits : j <= k
             IN  SubSeq(cs, 1, i - 1) \o SubSeq(cs, i + 1, Len(cs))

\* remove_city_by_name: the list comprehension.
remove_city_by_name(cs, city_name) ==
    SelectSeq(cs, LAMBDA city : city.city_name # city_name)

\* Mutant: an answer with no match is read as the coordinates 0, 0.
get_city_lon_lat_NoEmptyCheck(city_name, response) ==
    IF ~is_valid_parameter(city_name)
    THEN [raised |-> InvalidParameter, ret |-> << >>, reqs |-> << >>]
    ELSE IF response.transport
    THEN [raised |-> FailedCoordinates, ret |-> << >>, reqs |-> <<GeoReq(city_name)>>]
    ELSE IF ~is_valid_status_code_response(response)
    THEN [raised |-> InvalidResponse, ret |-> << >>, reqs |-> <<GeoReq(city_name)>>]
    ELSE IF response.json = << >>
    THEN [raised |-> NoError, ret |-> <<0, 0>>, reqs |-> <<GeoReq(city_name)>>]
    ELSE [raised |-> NoError,
          ret |-> <<response.json[1].lon, response.json[1].lat>>,
          reqs |-> <<GeoReq(city_name)>>]

\* get_city_lon_lat: [raised, ret, reqs]; ret is << >> or <<lon, lat>>.
get_city_lon_lat(city_name, response) ==
    IF ~is_valid_parameter(city_name)
    THEN [raised |-> InvalidParameter, ret |-> << >>, reqs |-> << >>]
    ELSE IF response.transport
    THEN [raised |-> FailedCoordinates, ret |-> << >>, reqs |-> <<GeoReq(city_name)>>]
    ELSE IF ~is_valid_status_code_response(response)
    THEN [raised |-> InvalidResponse, ret |-> << >>, reqs |-> <<GeoReq(city_name)>>]
    ELSE IF response.json = << >>
    THEN [raised |-> NoError, ret |-> << >>, reqs |-> <<GeoReq(city_name)>>]
    ELSE [raised |-> NoError,
          ret |-> <<response.json[1].lon, response.json[1].lat>>,
          reqs |-> <<GeoReq(city_name)>>]

\* _send_request_to_get_weather_city_json: [raised, ret, reqs].
send_request_to_get_weather_city_json(city_name, lat, lon, response) ==
    IF ~is_valid_parameter(city_name)
    THEN [raised |-> InvalidParameter, ret |-> << >>, reqs |-> << >>]
    ELSE IF response.transport
    THEN [raised |-> FailedWeather, ret |-> << >>, reqs |-> <<WeatherReq(lat, lon)>>]
    ELSE IF ~is_valid_status_code_response(response)
    THEN [raised |-> InvalidResponse, ret |-> << >>, reqs |-> <<WeatherReq(lat, lon)>>]
    ELSE [raised |-> NoError, ret |-> response.json, reqs |-> <<WeatherReq(lat, lon)>>]

\* Mutants of the two comparisons: a window one minute short, a window that
\* includes its end, a refresh one minute late.
IsFresh_Short(city, t) == t - city.created_datetime < FreshLimit - 1
IsFresh_Closed(city, t) == t - city.created_datetime <= FreshLimit
IsStale_Late(city, t) == t - city.created_datetime > StaleLimit + 1
\* Mutant: a refresh that takes the entry of exactly 10 minutes too.
IsStale_Closed(city, t) == t - city.created_datetime >= StaleLimit

\* `time_diff > 10` of update_cities_cache, at its clock reading t.
IsStale(city, t) == t - city.created_datetime > StaleLimit
\* `time_diff < 10` of get_and_cache_weather_city.
IsFresh(city, t) == t - city.created_datetime < FreshLimit

StaleIdx(cs, t) == {i \in 1..Len(cs) : IsStale(cs[i], t)}
Rank(S, i) == Cardinality({j \in S : j <= i})
Min(a, b) == IF a <= b THEN a ELSE b

\* update_cities_cache at clock reading t: the loop's first nOk requests
\* succeed and the next one, if there is one, gets the response bad.
\* [cities, raised, reqs].
update_cities_cache(cs, t, nOk, bad) ==
    LET S == StaleIdx(cs, t)
        done == Min(nOk, Cardinality(S))
        tried == Min(nOk + 1, Cardinality(S))
        one(i) == send_request_to_get_weather_city_json(
                      cs[i].city_name, cs[i].lat, cs[i].lon,
                      IF Rank(S, i) <= done
                      THEN OkWeather(cs[i].lat, cs[i].lon, t) ELSE bad)
        asked == SelectSeq([i \in 1..Len(cs) |-> i],
                           LAMBDA i : i \in S /\ Rank(S, i) <= tried)
    IN  [cities |-> [i \in 1..Len(cs) |->
                        IF i \in S /\ Rank(S, i) <= done
                        THEN [cs[i] EXCEPT !.weather_data = one(i).ret,
                                           !.created_datetime = t]
                        ELSE cs[i]],
         raised |-> IF done < Cardinality(S)
                    THEN one(CHOOSE i \in S : Rank(S, i) = done + 1).raised
                    ELSE NoError,
         reqs |-> [k \in 1..Len(asked) |-> one(asked[k]).reqs[1]]]

\* City.__eq__ (the dataclass's) against an int: NotImplemented on both
\* sides, so Python falls back to identity, and the answer is False.
city_eq_int(city, n) == FALSE

\* Mutant: a removal that finds nothing and says nothing.
list_remove_Silent(cs, x) == [raised |-> NoError, list |-> cs]

\* list.remove(x): drops the first element equal to x, or raises ValueError.
list_remove(cs, x) ==
    LET hits == {i \in 1..Len(cs) : city_eq_int(cs[i], x)}
    IN  IF hits = {}
        THEN [raised |-> NotInList, list |-> cs]
        ELSE LET i == CHOOSE j \in hits : \A k \in hits : j <= k
             IN  [raised |-> NoError,
                  list |-> SubSeq(cs, 1, i - 1) \o SubSeq(cs, i + 1, Len(cs))]

\* The first check of get_and_cache_weather_city: the fresh entries with
\* the name.
FreshByName(cs, city_name, t) ==
    {i \in 1..Len(cs) : cs[i].city_name = city_name /\ IsFresh(cs[i], t)}
\* Mutant: a second check that does not look at the entry's age.
FreshByNameAndPlace_AnyAge(cs, city_name, lon, lat, t) ==
    {i \in 1..Len(cs) : /\ cs[i].city_name = city_name
                        /\ cs[i].lon = lon
                        /\ cs[i].lat = lat}
\* Its second check: name and coordinates.
FreshByNameAndPlace(cs, city_name, lon, lat, t) ==
    {i \in 1..Len(cs) : /\ cs[i].city_name = city_name
                        /\ cs[i].lon = lon
                        /\ cs[i].lat = lat
                        /\ IsFresh(cs[i], t)}
First(S) == CHOOSE i \in S : \A j \in S : i <= j

\* The result of a call: the cache it leaves, what it returns or raises, the
\* requests it issued, and its clock reading `current_time` (-1: not read).
Outcome(cs, ret, raised, reqs, readAt) ==
    [cities |-> cs, ret |-> ret, raised |-> raised, reqs |-> reqs, readAt |-> readAt]

\* The tail of get_and_cache_weather_city, after the geocoder answered with
\* coordinates: second check, fetch, eviction, append.
FetchAndCache(cs, city_name, lon, lat, t2, t3, wxResp, reqs) ==
    LET hit == FreshByNameAndPlace(cs, city_name, lon, lat, t2)
        w == send_request_to_get_weather_city_json(city_name, lat, lon, wxResp)
        ev == IF Len(cs) > CapacityCheck
              THEN list_remove(cs, EvictArg)
              ELSE [raised |-> NoError, list |-> cs]
    IN  IF hit # {}
        THEN Outcome(cs, cs[First(hit)].weather_data, NoError, reqs, t2)
        ELSE IF w.raised # NoError
        THEN Outcome(cs, << >>, w.raised, reqs \o w.reqs, t2)
        ELSE IF ev.raised # NoError
        THEN Outcome(cs, << >>, ev.raised, reqs \o w.reqs, t2)
        ELSE Outcome(Append(ev.list, City(city_name, lat, lon, w.ret, t3)),
                     w.ret, NoError, reqs \o w.reqs, t2)

\* Mutant: the refresh runs whatever the behavior.
Polls_Always(beh) == TRUE

\* `self.behavior == Behaviors.POLLING`.
Polls(beh) == beh = "polling"

\* get_and_cache_weather_city, with its three clock readings t1 (inside
\* update_cities_cache), t2 (current_time) and t3 (the new entry's).
get_and_cache_weather_city(cs, beh, city_name, t1, t2, t3, nOk, bad, geoResp, wxFail) ==
    LET upd == IF Polls(beh)
               THEN update_cities_cache(cs, t1, nOk, bad)
               ELSE [cities |-> cs, raised |-> NoError, reqs |-> << >>]
        cs1 == upd.cities
        hit == FreshByName(cs1, city_name, t2)
        geo == get_city_lon_lat(city_name, geoResp)
    IN  IF ~is_valid_parameter(city_name)
        THEN Outcome(cs, << >>, InvalidParameter, << >>, -1)
        ELSE IF upd.raised # NoError
        THEN Outcome(cs1, << >>, upd.raised, upd.reqs, -1)
        ELSE IF hit # {}
        THEN Outcome(cs1, cs1[First(hit)].weather_data, NoError, upd.reqs, t2)
        ELSE IF geo.raised # NoError
        THEN Outcome(cs1, << >>, geo.raised, upd.reqs \o geo.reqs, t2)
        ELSE IF geo.ret = << >>
        THEN Outcome(cs1, << >>, NoError, upd.reqs \o geo.reqs, t2)
        ELSE FetchAndCache(cs1, city_name, geo.ret[1], geo.ret[2], t2, t3,
                           IF wxFail \in FailResponses
                           THEN wxFail
                           ELSE OkWeather(geo.ret[2], geo.ret[1], t2),
                           upd.reqs \o geo.reqs)

\* ------------------------------------------------------------ the registry
\* The objects ever constructed are numbered in the order of construction;
\* an object not yet constructed has no key.
NoKey == "none"
ClientIds == 1..MaxClients
KeyNames == <<"key1", "key2", "key3", "key4">>
Keys == {KeyNames[i] : i \in 1..MaxKeys}
\* The client whose cache is modelled: the first one constructed.
Self == CHOOSE id \in ClientIds : \A j \in ClientIds : id <= j

\* Mutant: only the first registered client is looked at.
KeyRegistered_FirstOnly(reg, keys, key) == reg # << >> /\ keys[reg[1]] = key

\* The loop of __init__: some registered client holds the key.
KeyRegistered(reg, keys, key) == \E i \in 1..Len(reg) : keys[reg[i]] = key

\* __init__ of a new object id: [raised, reg, keys].
construct(reg, keys, id, key) ==
    IF KeyRegistered(reg, keys, key)
    THEN [raised |-> KeyExists, reg |-> reg, keys |-> keys]
    ELSE [raised |-> NoError, reg |-> Append(reg, id),
          keys |-> [keys EXCEPT ![id] = key]]

\* delete_weather_api_cache_obj: list.remove(weather_api), by identity.
delete_weather_api_cache_obj(reg, id) ==
    LET hits == {i \in 1..Len(reg) : reg[i] = id}
    IN  IF hits = {}
        THEN [raised |-> NotInList, reg |-> reg]
        ELSE LET i == CHOOSE j \in hits : \A k \in hits : j <= k
             IN  [raised |-> NoError,
                  reg |-> SubSeq(reg, 1, i - 1) \o SubSeq(reg, i + 1, Len(reg))]

\* ----------------------------------------------------------------- history
\* The last call: its name and argument, the clock and the cache when it was
\* made, its outcome, and the geocoder's answer if it was asked.
Call(op, city_name, calledAt, before, out) ==
    [op |-> op, city |-> city_name, calledAt |-> calledAt, before |-> before,
     ret |-> out.ret, raised |-> out.raised, reqs |-> out.reqs,
     readAt |-> out.readAt, geo |-> "unasked"]
\* What the geocoder answered to the call's geocoding request.
GeoKind(response) ==
    IF response.transport \/ response.status_code # HttpOk THEN "failed"
    ELSE IF response.json = << >> THEN "nomatch"
    ELSE "coords"
NoCall(op) == Call(op, << >>, -1, << >>, Outcome(<< >>, << >>, NoError, << >>, -1))
\* The last registry operation: the client and key it was about, the
\* registry and the clients' keys before it, and what it raised.
RegCall(op, id, key, raised, before, beforeKeys) ==
    [op |-> op, id |-> id, key |-> key, raised |-> raised, before |-> before,
     beforeKeys |-> beforeKeys]

\* Between calls: the caller has taken the last call's result.
Idle == NoCall("idle")

\* -------------------------------------------------------------------- Init
\* The cache after n successful calls for n distinct names within minute 0.
Warm(n) == [i \in 1..n |->
               City(FillerName(i), GeoLat(FillerName(i)), GeoLon(FillerName(i)),
                    Payload(GeoLat(FillerName(i)), GeoLon(FillerName(i)), 0), 0)]

\* One client, constructed and registered; its cache is empty, or warm.
Init ==
    /\ behavior \in {"on_demand", "polling"}
    /\ \E n \in {0, Prefill} :
          /\ cities = Warm(n)
          /\ fetched = [name \in AllNames |->
                           IF \E i \in 1..n : FillerName(i) = name THEN 0 ELSE -1]
    /\ now = 0
    /\ last = Idle
    /\ weather_api_cache = <<Self>>
    /\ api_key = [id \in ClientIds |-> IF id = Self THEN KeyNames[1] ELSE NoKey]
    /\ lastReg = RegCall("init", Self, KeyNames[1], NoError, << >>,
                         [id \in ClientIds |-> NoKey])

\* ----------------------------------------------------------------- actions
\* Time passes between calls.
Tick ==
    /\ last = Idle
    /\ now < MaxTime
    /\ now' = now + 1
    /\ UNCHANGED <<behavior, cities, fetched, last, regVars>>

\* The caller takes the result of the call; the client is idle again.
Return ==
    /\ last # Idle
    /\ last' = Idle
    /\ UNCHANGED <<behavior, cities, now, fetched, regVars>>

\* What the upstream may do during update_cities_cache at clock reading t:
\* how many of its requests succeed (all of them, or at most MaxOk before a
\* failing one), and the failure that ends it.
AllOk == CHOOSE bad \in FailResponses : TRUE
RefreshChoices(cs, t) ==
    LET n == Cardinality(StaleIdx(cs, t))
    IN  {<<n, AllOk>>}
        \cup {<<nOk, bad>> : nOk \in 0..Min(MaxOk, n - 1), bad \in FailResponses}

\* A call of get_and_cache_weather_city(city_name).  The upstream's answers
\* and the minutes that pass are chosen only where the call gets to them.
GetWeather(city_name) ==
    /\ last = Idle
    /\ \E d1 \in IF Polls(behavior) THEN 0..MaxElapse ELSE {0} :
       \E rc \in IF Polls(behavior) /\ is_valid_parameter(city_name)
                 THEN RefreshChoices(cities, now) ELSE {<<0, AllOk>>} :
        LET t1 == now
            t2 == now + d1
            upd == IF Polls(behavior)
                   THEN update_cities_cache(cities, t1, rc[1], rc[2])
                   ELSE [cities |-> cities, raised |-> NoError, reqs |-> << >>]
            geocodes == /\ is_valid_parameter(city_name)
                        /\ upd.raised = NoError
                        /\ FreshByName(upd.cities, city_name, t2) = {}
            matched == CHOOSE r \in GeoResponses(city_name) : r.json # << >>
        IN  \E geoResp \in IF geocodes THEN GeoResponses(city_name) ELSE {matched} :
            \E wxFail \in IF geocodes /\ geoResp = matched
                          THEN FailResponses \cup {OkWeather(0, 0, 0)}
                          ELSE {OkWeather(0, 0, 0)} :
            \E d2 \in IF geocodes /\ geoResp = matched /\ wxFail \notin FailResponses
                      THEN 0..MaxElapse ELSE {0} :
                LET t3 == t2 + d2
                    out == get_and_cache_weather_city(
                               cities, behavior, city_name, t1, t2, t3,
                               rc[1], rc[2], geoResp, wxFail)
                IN  /\ t3 <= MaxTime
                    /\ cities' = out.cities
                    /\ now' = t3
                    /\ fetched' = IF Len(out.cities) > Len(cities)
                                  THEN [fetched EXCEPT ![city_name] = t3]
                                  ELSE fetched
                    /\ last' = [Call("get", city_name, now, cities, out)
                                   EXCEPT !.geo = IF geocodes THEN GeoKind(geoResp)
                                                  ELSE "unasked"]
                    /\ UNCHANGED <<behavior, regVars>>

\* A call of get_city_lon_lat(city_name).
GetCityLonLat(city_name) ==
    /\ last = Idle
    /\ \E response \in IF is_valid_parameter(city_name)
                        THEN GeoResponses(city_name)
                        ELSE {CHOOSE r \in GeoResponses(city_name) : r.json # << >>} :
        LET out == get_city_lon_lat(city_name, response)
        IN  /\ last' = [Call("geocode", city_name, now, cities,
                             Outcome(cities, out.ret, out.raised, out.reqs, -1))
                        EXCEPT !.geo = IF out.reqs # << >> THEN GeoKind(response)
                                       ELSE "unasked"]
            /\ UNCHANGED <<behavior, cities, now, fetched, regVars>>

\* A call of update_cities_cache().
UpdateCities ==
    /\ last = Idle
    /\ \E rc \in RefreshChoices(cities, now) :
        LET out == update_cities_cache(cities, now, rc[1], rc[2])
        IN  /\ cities' = out.cities
            /\ last' = Call("update", << >>, now, cities,
                            Outcome(out.cities, << >>, out.raised, out.reqs, now))
            /\ UNCHANGED <<behavior, now, fetched, regVars>>

\* A call of remove_city_by_name(city_name).
RemoveCity(city_name) ==
    /\ last = Idle
    /\ cities' = remove_city_by_name(cities, city_name)
    /\ fetched' = [fetched EXCEPT ![city_name] = -1]
    /\ last' = Call("remove", city_name, now, cities,
                    Outcome(cities', << >>, NoError, << >>, -1))
    /\ UNCHANGED <<behavior, now, regVars>>

\* WeatherApi(key, ...): a new object, the next unused id.
Construct(key) ==
    \E id \in ClientIds :
        /\ api_key[id] = NoKey
        /\ \A j \in ClientIds : j < id => api_key[j] # NoKey
        /\ LET out == construct(weather_api_cache, api_key, id, key)
           IN  /\ weather_api_cache' = out.reg
               /\ api_key' = out.keys
               /\ lastReg' = RegCall("construct", id, key, out.raised,
                                     weather_api_cache, api_key)
        /\ UNCHANGED cacheVars

\* WeatherApi.delete_weather_api_cache_obj(client).
Delete(id) ==
    /\ api_key[id] # NoKey
    /\ LET out == delete_weather_api_cache_obj(weather_api_cache, id)
       IN  /\ weather_api_cache' = out.reg
           /\ lastReg' = RegCall("delete", id, api_key[id], out.raised,
                                 weather_api_cache, api_key)
    /\ UNCHANGED <<api_key, cacheVars>>

\* client.api_key = key: the property's setter.
SetApiKey(id, key) ==
    /\ api_key[id] # NoKey
    /\ api_key' = [api_key EXCEPT ![id] = key]
    /\ lastReg' = RegCall("set", id, key, NoError, weather_api_cache, api_key)
    /\ UNCHANGED <<weather_api_cache, cacheVars>>

Next ==
    \/ Tick
    \/ Return
    \/ \E city_name \in CallNames : GetWeather(city_name)
    \/ \E city_name \in CallNames : GetCityLonLat(city_name)
    \/ UpdateCities
    \/ \E city_name \in CallNames : RemoveCity(city_name)

\* The client and its cache.
Spec == Init /\ [][Next]_vars

RegNext ==
    \/ \E key \in Keys : Construct(key)
    \/ \E id \in ClientIds : Delete(id)
    \/ \E id \in ClientIds, key \in Keys : SetApiKey(id, key)

\* A call of get_and_cache_weather_city(city_name) in which the upstream
\* answers every request, with status 200.
UpstreamErrors == {InvalidResponse, FailedCoordinates, FailedWeather}
GetWeatherOk(city_name) ==
    /\ GetWeather(city_name)
    /\ last'.raised \notin UpstreamErrors

OkNext ==
    \/ Tick
    \/ Return
    \/ \E city_name \in CallNames : GetWeatherOk(city_name)
    \/ \E city_name \in CallNames : RemoveCity(city_name)

\* The client and its cache when only get_and_cache_weather_city and
\* remove_city_by_name are called and the upstream never fails.
OkSpec == Init /\ [][OkNext]_vars

\* The process-wide registry of clients.
RegSpec == Init /\ [][RegNext]_vars

\* ======================================================================
\* The claims.  `last` is the call just made: last.before is the cache it
\* was made on, `cities` the cache it left.
\* ======================================================================
CountNamed(cs, name) == Cardinality({i \in 1..Len(cs) : cs[i].city_name = name})
NamesOf(cs) == [i \in 1..Len(cs) |-> cs[i].city_name]

RECURSIVE Without(_, _)
Without(cs, name) ==
    IF cs = << >> THEN << >>
    ELSE IF Head(cs).city_name = name THEN Without(Tail(cs), name)
    ELSE <<Head(cs)>> \o Without(Tail(cs), name)

IsGet == last.op = "get"
\* The weather request for the coordinates the geocoder gives last.city.
OwnWeatherReq == WeatherReq(GeoLat(last.city), GeoLon(last.city))
\* The call's geocode request was answered with coordinates and its weather
\* request with a payload.
FetchedOk ==
    /\ IsGet
    /\ Len(last.reqs) >= 2
    /\ last.reqs[Len(last.reqs) - 1] = GeoReq(last.city)
    /\ last.reqs[Len(last.reqs)] = OwnWeatherReq
    /\ last.raised \notin {InvalidResponse, FailedWeather}
Capacity == CapacityCheck + 1

\* ---------------------------------------------------------------- C1
\* A step that is a call for c which raises nothing and reads the clock less
\* than 10 minutes after an earlier call fetched and cached c's weather, with
\* no remove_city_by_name(c) in between.
C1_SecondCall(c) ==
    /\ last'.op = "get"
    /\ last'.city = c
    /\ last'.raised = NoError
    /\ fetched[c] >= 0
    /\ last'.readAt - fetched[c] < FreshLimit

\* C1 as stated: the second of two successful calls for a city made less
\* than 10 minutes apart is served from the cache and issues no geocode and
\* no weather request at all, in both modes.
C1_Original ==
    [][\A c \in CityNames : C1_SecondCall(c) => last'.reqs = << >>]_vars

\* C1, amended: the second call returns the payload of a fresh entry for the
\* city, appends no entry and issues no geocode request; in on-demand mode it
\* issues no request at all and leaves the cache as it was, in polling mode
\* it issues only the refresh requests for entries older than 10 minutes (an
\* older duplicate entry of the same city among them).
C1_ServedFromCache ==
    [][\A c \in CityNames : C1_SecondCall(c) =>
          /\ last'.ret # << >>
          /\ \E i \in 1..Len(cities') :
                /\ cities'[i].city_name = c
                /\ cities'[i].weather_data = last'.ret
                /\ last'.readAt - cities'[i].created_datetime < FreshLimit
          /\ Len(cities') = Len(cities)
          /\ \A k \in 1..Len(last'.reqs) :
                \E i \in 1..Len(cities) :
                    /\ now - cities[i].created_datetime > StaleLimit
                    /\ last'.reqs[k] = WeatherReq(cities[i].lat, cities[i].lon)
          /\ (behavior = "on_demand")
                => (last'.reqs = << >> /\ cities' = cities)]_vars

\* A polling client serves a call from the cache within 10 minutes of the
\* fetch, after refreshing other entries.
C1_Witness ==
    /\ IsGet
    /\ last.city \in CityNames
    /\ last.raised = NoError
    /\ last.ret # << >>
    /\ behavior = "polling"
    /\ last.reqs # << >>
    /\ Len(cities) = Len(last.before)
    /\ fetched[last.city] >= 0
    /\ last.readAt - fetched[last.city] < FreshLimit

\* ---------------------------------------------------------------- C2
\* C2 as stated: a successful call for a city whose one cached entry is 10
\* minutes old or older issues a weather fetch and updates that entry in
\* place: still one entry of that name, the same number of entries.
C2_UpdatedInPlace ==
    ( /\ IsGet
      /\ last.raised = NoError
      /\ last.ret # << >>
      /\ CountNamed(last.before, last.city) = 1
      /\ \A i \in 1..Len(last.before) :
            last.before[i].city_name = last.city
            => last.readAt - last.before[i].created_datetime >= FreshLimit )
    => /\ \E k \in 1..Len(last.reqs) : last.reqs[k] = OwnWeatherReq
       /\ CountNamed(cities, last.city) = 1
       /\ Len(cities) = Len(last.before)

\* ---------------------------------------------------------------- C3
\* C3: the cache holds at most 10 entries, in every reachable state.
C3_AtMostTen == Len(cities) <= Capacity

\* A call on a full cache that fetched the weather of a city with no fresh
\* entry: the 11th insertion is attempted.
C3_Witness ==
    /\ FetchedOk
    /\ Len(last.before) = Capacity
    /\ Len(cities) = Capacity

\* ---------------------------------------------------------------- C4
\* C4 as stated: on a full cache, a call whose geocode and weather requests
\* succeed returns, evicts the head, appends the new entry at the tail and
\* leaves the other nine entries as they were, in order.
C4_EvictsOldest ==
    (FetchedOk /\ Len(last.before) = Capacity)
    => /\ last.raised = NoError
       /\ Len(cities) = Capacity
       /\ NamesOf(cities) = Tail(NamesOf(last.before)) \o <<last.city>>
       /\ behavior = "on_demand"
          => SubSeq(cities, 1, Capacity - 1) = Tail(last.before)

\* ---------------------------------------------------------------- C5
\* What C5 promises of a call that fetched: it returns the payload the
\* upstream answered, and the cache is the old one with one entry more, named
\* for the city and holding the coordinates, the payload and the clock.
C5_Grown ==
    /\ last.raised = NoError
    /\ last.ret = <<GeoLat(last.city), GeoLon(last.city), last.readAt>>
    /\ Len(cities) = Len(last.before) + 1
    /\ NamesOf(SubSeq(cities, 1, Len(last.before))) = NamesOf(last.before)
    /\ cities[Len(cities)] =
          [city_name |-> last.city, lat |-> GeoLat(last.city),
           lon |-> GeoLon(last.city), weather_data |-> last.ret,
           created_datetime |-> now]

C6_ReturnsFresh ==
    (IsGet /\ last.ret # << >>)
    => \E i \in 1..Len(cities) :
          /\ cities[i].city_name = last.city
          /\ cities[i].weather_data = last.ret
          /\ last.readAt - cities[i].created_datetime < FreshLimit

\* A call served from the cache by an entry 9 minutes old.
C6_Witness ==
    /\ IsGet
    /\ last.ret # << >>
    /\ cities = last.before
    /\ \E i \in 1..Len(cities) :
          /\ cities[i].city_name = last.city
          /\ cities[i].weather_data = last.ret
          /\ last.readAt - cities[i].created_datetime = FreshLimit - 1

\* ---------------------------------------------------------------- C7
\* C7 as stated: in polling mode, when a call that raises nothing looks the
\* requested city up, no cached entry is 10 minutes old or older.
C7_NoStaleWhenServed ==
    (behavior = "polling" /\ IsGet /\ last.raised = NoError)
    => \A i \in 1..Len(last.before) :
          last.readAt - cities[i].created_datetime < FreshLimit

\* ---------------------------------------------------------------- C8
\* An entry of another name than the requested one, older than 10 minutes
\* when the call is made.
C8_StaleOther(i) ==
    /\ last.before[i].city_name # last.city
    /\ last.calledAt - last.before[i].created_datetime > StaleLimit
C8_Refresh(i) == WeatherReq(last.before[i].lat, last.before[i].lon)

\* C8 as stated: in polling mode, with such an entry A cached, every geocode
\* or weather request for the requested city B comes after the refresh
\* request for A's coordinates.
C8_Original ==
    (behavior = "polling" /\ IsGet)
    => \A i \in 1..Len(last.before) :
          C8_StaleOther(i)
          => \A k \in 1..Len(last.reqs) :
                last.reqs[k] \in {GeoReq(last.city), OwnWeatherReq}
                => \E j \in 1..(k - 1) : last.reqs[j] = C8_Refresh(i)

\* The refresh request for entry i is among the first n requests.
C8_RefreshedWithin(i, n) == \E j \in 1..n : last.reqs[j] = C8_Refresh(i)
\* Request k is the refresh of an entry of the requested city's own, older
\* than 10 minutes and cached before entry i.
C8_OwnRefresh(i, k) ==
    \E h \in 1..(i - 1) :
        /\ last.before[h].city_name = last.city
        /\ last.calledAt - last.before[h].created_datetime > StaleLimit
        /\ WeatherReq(last.before[h].lat, last.before[h].lon) = last.reqs[k]

\* C8, amended: the geocode request for B, and with it the weather fetch
\* that follows it, comes after the refresh request for A's coordinates; a
\* call that raises nothing has issued that refresh request; a weather
\* request for B's coordinates that precedes it is the refresh of an entry
\* of B's own, older than 10 minutes and cached before A's.
C8_RefreshFirst ==
    (behavior = "polling" /\ IsGet)
    => \A i \in 1..Len(last.before) :
          C8_StaleOther(i)
          => /\ \A k \in 1..Len(last.reqs) :
                   (last.reqs[k] = GeoReq(last.city))
                   => (/\ C8_RefreshedWithin(i, k - 1)
                       /\ \A m \in (k + 1)..Len(last.reqs) :
                             last.reqs[m] = OwnWeatherReq)
             /\ (last.raised = NoError)
                   => C8_RefreshedWithin(i, Len(last.reqs))
             /\ \A k \in 1..Len(last.reqs) :
                   (last.reqs[k] = OwnWeatherReq /\ ~C8_RefreshedWithin(i, k - 1))
                   => C8_OwnRefresh(i, k)

\* The scenario: Paris cached 11 minutes ago, get_and_cache_weather_city for
\* Tokyo refreshes Paris, then geocodes Tokyo and fetches its weather.
C8_Witness ==
    /\ behavior = "polling"
    /\ IsGet
    /\ last.city = Tokyo
    /\ last.raised = NoError
    /\ \E i \in 1..Len(last.before) :
          /\ last.before[i].city_name = Paris
          /\ last.calledAt - last.before[i].created_datetime = StaleLimit + 1
          /\ \E j, k \in 1..Len(last.reqs) :
                /\ j < k
                /\ last.reqs[j] = WeatherReq(last.before[i].lat, last.before[i].lon)
                /\ last.reqs[k] = GeoReq(Tokyo)
                /\ last.reqs[Len(last.reqs)] = OwnWeatherReq

\* ---------------------------------------------------------------- C9
\* C9: remove_city_by_name(X) raises nothing and leaves no entry named X and
\* every other entry as it was, in the same order; with no entry named X the
\* cache is unchanged.
C9_RemoveCity ==
    last.op = "remove"
    => /\ last.raised = NoError
       /\ CountNamed(cities, last.city) = 0
       /\ cities = Without(last.before, last.city)
       /\ CountNamed(last.before, last.city) = 0 => cities = last.before

\* A removal of a name with two entries, from a cache that holds others.
C9_Witness ==
    /\ last.op = "remove"
    /\ CountNamed(last.before, last.city) >= 2
    /\ cities # << >>

\* ---------------------------------------------------------------- C10
\* C10: a construction with a key that a registered client holds raises and
\* changes neither the registry nor any client; with a key no registered
\* client holds it adds the new client, with that key, at the end of the
\* registry.
C10_Construct ==
    lastReg.op = "construct"
    => IF \E i \in 1..Len(lastReg.before) :
              lastReg.beforeKeys[lastReg.before[i]] = lastReg.key
       THEN /\ lastReg.raised = KeyExists
            /\ weather_api_cache = lastReg.before
            /\ api_key = lastReg.beforeKeys
       ELSE /\ lastReg.raised = NoError
            /\ \A i \in 1..Len(lastReg.before) : lastReg.before[i] # lastReg.id
            /\ weather_api_cache = lastReg.before \o <<lastReg.id>>
            /\ api_key = [lastReg.beforeKeys EXCEPT ![lastReg.id] = lastReg.key]

\* A construction refused for a key held by a registered client that is not
\* the first of the registry.
C10_Witness ==
    /\ lastReg.op = "construct"
    /\ lastReg.raised = KeyExists
    /\ Len(lastReg.before) >= 2
    /\ lastReg.beforeKeys[lastReg.before[1]] # lastReg.key

\* ---------------------------------------------------------------- C11
\* C11 as stated: after any sequence of constructions, deletions from the
\* registry and assignments to api_key, no two registered clients hold the
\* same key.
C11_UniqueKeys ==
    \A i, j \in 1..Len(weather_api_cache) :
        i # j => api_key[weather_api_cache[i]] # api_key[weather_api_cache[j]]

\* ---------------------------------------------------------------- C12
\* C12: with a blank name (empty, or only whitespace), get_city_lon_lat and
\* get_and_cache_weather_city raise the validation error, issue no request
\* and leave the cache as it was, in polling mode with entries older than 10
\* minutes too.
C12_BlankRejected ==
    (last.op \in {"get", "geocode"} /\ last.city \in BlankNames)
    => /\ last.raised = InvalidParameter
       /\ last.reqs = << >>
       /\ last.geo = "unasked"
       /\ cities = last.before

\* A polling client, with an entry older than 10 minutes cached, is called
\* with a name of whitespace.
C12_Witness ==
    /\ IsGet
    /\ behavior = "polling"
    /\ last.city = <<Space, Space>>
    /\ last.raised = InvalidParameter
    /\ \E i \in 1..Len(last.before) :
          last.calledAt - last.before[i].created_datetime > StaleLimit

\* The same for get_city_lon_lat.
C12_WitnessGeocode ==
    /\ last.op = "geocode"
    /\ last.city \in BlankNames
    /\ last.raised = InvalidParameter

\* ---------------------------------------------------------------- C13
\* Entry i after the call is entry i as the optional polling refresh leaves
\* it: as it was, or, in polling mode and older than 10 minutes when the call
\* was made, with the payload fetched for its coordinates and the time of the
\* refresh.
C13_AsRefreshed(i) ==
    IF behavior = "polling"
       /\ last.calledAt - last.before[i].created_datetime > StaleLimit
    THEN cities[i] =
            [city_name |-> last.before[i].city_name,
             lat |-> last.before[i].lat, lon |-> last.before[i].lon,
             weather_data |-> <<last.before[i].lat, last.before[i].lon, last.calledAt>>,
             created_datetime |-> last.calledAt]
    ELSE cities[i] = last.before[i]

\* C13: when the geocoder answers the call's request with no match, the call
\* returns the empty payload, the geocoding request is its last request, no
\* request of the call fetches the weather of the requested city, and the
\* cache has the entries it had, as the optional polling refresh left them.
C13_NoMatch ==
    (IsGet /\ last.geo = "nomatch")
    => /\ last.raised = NoError
       /\ last.ret = << >>
       /\ last.reqs # << >>
       /\ last.reqs[Len(last.reqs)] = GeoReq(last.city)
       /\ \A k \in 1..Len(last.reqs) :
             /\ last.reqs[k] # OwnWeatherReq
             /\ \A i \in 1..Len(last.before) :
                   last.before[i].city_name = last.city
                   => last.reqs[k] # WeatherReq(last.before[i].lat, last.before[i].lon)
       /\ Len(cities) = Len(last.before)
       /\ \A i \in 1..Len(last.before) : C13_AsRefreshed(i)

\* A polling client refreshes its entries, misses the cache for a city that
\* has an entry, and the geocoder finds no match.
C13_Witness ==
    /\ IsGet
    /\ last.geo = "nomatch"
    /\ behavior = "polling"
    /\ cities # last.before
    /\ CountNamed(last.before, last.city) >= 1

\* ---------------------------------------------------------------- C14
\* C14 as stated: a call of get_and_cache_weather_city in which a request is
\* answered with a status other than 200 raises, issues no request after the
\* failing one and none twice (at most one per entry older than 10 minutes,
\* one geocoding and one weather request), and leaves the cache exactly as it
\* was before the call, in both modes.
C14_NoPartialResults ==
    (IsGet /\ last.raised = InvalidResponse)
    => /\ last.ret = << >>
       /\ Len(last.reqs) <=
             Cardinality({i \in 1..Len(last.before) :
                 last.calledAt - last.before[i].created_datetime > StaleLimit}) + 2
       /\ cities = last.before

\* ---------------------------------------------------------------- C15
\* C15: in on-demand mode, every request of get_and_cache_weather_city(c) is
\* the geocoding request for c or the weather request for c's coordinates,
\* none is a weather request for the coordinates of a cached entry of another
\* name, and every entry of another name is after the call as it was before,
\* whatever its age.
C15_OnlyRequested ==
    (behavior = "on_demand" /\ IsGet)
    => /\ \A k \in 1..Len(last.reqs) :
             /\ last.reqs[k] \in {GeoReq(last.city), OwnWeatherReq}
             /\ \A i \in 1..Len(last.before) :
                   last.before[i].city_name # last.city
                   => last.reqs[k] # WeatherReq(last.before[i].lat, last.before[i].lon)
       /\ \A i \in 1..Len(last.before) :
             last.before[i].city_name # last.city
             => (i <= Len(cities) /\ cities[i] = last.before[i])

\* An on-demand client fetches a city's weather while entries of other
\* names, older than 10 minutes, are cached.
C15_Witness ==
    /\ behavior = "on_demand"
    /\ FetchedOk
    /\ last.raised = NoError
    /\ \E i \in 1..Len(last.before) :
          /\ last.before[i].city_name # last.city
          /\ last.calledAt - last.before[i].created_datetime > StaleLimit

\* ---------------------------------------------------------------- C16
\* The weather requests for the entries of cs older than 10 minutes at t, one
\* per entry, in the order of the list.
RECURSIVE C16_Requests(_, _)
C16_Requests(cs, t) ==
    IF cs = << >> THEN << >>
    ELSE (IF t - Head(cs).created_datetime > StaleLimit
          THEN <<WeatherReq(Head(cs).lat, Head(cs).lon)>> ELSE << >>)
         \o C16_Requests(Tail(cs), t)

\* C16: an update_cities_cache whose requests all succeed issues exactly one
\* weather request per entry older than 10 minutes, for its coordinates; such
\* an entry gets the fetched payload and the time of the refresh, every other
\* entry is as it was; the number, names, coordinates and order of the
\* entries are as they were.
C16_RefreshesStale ==
    (last.op = "update" /\ last.raised = NoError)
    => /\ last.reqs = C16_Requests(last.before, last.calledAt)
       /\ Len(cities) = Len(last.before)
       /\ \A i \in 1..Len(last.before) :
             IF last.calledAt - last.before[i].created_datetime > StaleLimit
             THEN cities[i] =
                     [city_name |-> last.before[i].city_name,
                      lat |-> last.before[i].lat, lon |-> last.before[i].lon,
                      weather_data |-> <<last.before[i].lat, last.before[i].lon,
                                         last.calledAt>>,
                      created_datetime |-> last.calledAt]
             ELSE cities[i] = last.before[i]

\* A refresh of a cache that holds entries older than 10 minutes, an entry
\* of exactly 10 minutes and a younger one.
C16_Witness ==
    /\ last.op = "update"
    /\ last.raised = NoError
    /\ Len(last.reqs) >= 2
    /\ \E i \in 1..Len(last.before) :
          last.calledAt - last.before[i].created_datetime = StaleLimit
    /\ \E i \in 1..Len(last.before) :
          last.calledAt - last.before[i].created_datetime < StaleLimit

\* ---------------------------------------------------------------- C17
\* C17: a get_and_cache_weather_city whose geocoding request is answered
\* with coordinates goes on to the weather request for those coordinates:
\* the geocoding request is followed by that weather request, the call's
\* last, and a payload it returns is the one fetched, not a cached one.
C17_SecondCheckNeverHits ==
    (IsGet /\ last.geo = "coords")
    => /\ Len(last.reqs) >= 2
       /\ last.reqs[Len(last.reqs) - 1] = GeoReq(last.city)
       /\ last.reqs[Len(last.reqs)] = OwnWeatherReq
       /\ last.ret # << >>
          => last.ret = <<GeoLat(last.city), GeoLon(last.city), last.readAt>>

\* The geocoder answers with the coordinates of an entry the cache holds
\* for the city, 10 minutes old or older: the second check compares name and
\* coordinates, and the call fetches.
C17_Witness ==
    /\ IsGet
    /\ last.geo = "coords"
    /\ last.raised = NoError
    /\ \E i \in 1..Len(last.before) :
          /\ last.before[i].city_name = last.city
          /\ last.before[i].lat = GeoLat(last.city)
          /\ last.before[i].lon = GeoLon(last.city)
          /\ last.readAt - last.before[i].created_datetime >= FreshLimit

\* ---------------------------------------------------------------- C18
\* C18 as stated: in polling mode, after any sequence of calls of
\* get_and_cache_weather_city and remove_city_by_name in which the upstream
\* answers every request successfully, no two entries of the cache have the
\* same name.
C18_NoDuplicateNames ==
    behavior = "polling"
    => \A i, j \in 1..Len(cities) :
          i # j => cities[i].city_name # cities[j].city_name

\* ---------------------------------------------------------------- C19
\* C19 as stated: when delete_weather_api_cache_obj has removed a registered
\* client, a construction with that client's key succeeds, and the registry
\* then holds the new client and not the removed one.
C19_KeyFreeAfterDelete ==
    [][( /\ lastReg.op = "delete"
         /\ lastReg.raised = NoError
         /\ lastReg'.op = "construct"
         /\ lastReg'.key = lastReg.key )
       => /\ lastReg'.raised = NoError
          /\ \E i \in 1..Len(weather_api_cache') :
                weather_api_cache'[i] = lastReg'.id
          /\ \A i \in 1..Len(weather_api_cache') :
                weather_api_cache'[i] # lastReg.id]_vars
====
